---- MODULE Spec2Model ----
(***************************************************************************)
(* Model of cmd/controller-manager/app/options/options.go: the option      *)
(* aggregator of the KubeSphere controller manager.                        *)
(*                                                                         *)
(* The config is the struct KubeSphereControllerManagerOptions.  Each of   *)
(* the ten sub-option groups is an external value; it is abstracted by the *)
(* number of errors its own Validate() reports (0 = the group's default,   *)
(* taken to pass its own validation).  Strings that are parsed (the        *)
(* application selector, the klog flag names) are sequences of characters. *)
(* Durations are in seconds.                                               *)
(***************************************************************************)
EXTENDS Integers, Sequences, FiniteSets, TLC

VARIABLES cfg, op, errs, parseCalls, fss, flagsRegistered, nSet

vars == <<cfg, op, errs, parseCalls, fss, flagsRegistered, nSet>>

\* ---------------------------------------------------------------- bounds
MaxErrs == 2
MaxLen == 2
MaxOverrides == 2

\* ------------------------------------------------------ program constants
DefaultLeaseDuration == 30
DefaultRenewDeadline == 15
DefaultRetryPeriod == 5

\* ------------------------------------------------------------ input sets
Alphabet == {"k", "=", "!", ","}

DurationValues == {DefaultRetryPeriod, DefaultRenewDeadline, DefaultLeaseDuration}

CertDirs == {"", "/certs"}

RECURSIVE StringsUpTo(_)
StringsUpTo(n) ==
  IF n = 0 THEN {<<>>}
  ELSE LET shorter == StringsUpTo(n - 1)
       IN shorter \cup {Append(s, c) : s \in shorter, c \in Alphabet}

Selectors == StringsUpTo(MaxLen)

\* ------------------------------------------------------------ the struct
\* The ten sub-option group fields of the struct, in declaration order.
GroupFields ==
  <<"KubernetesOptions", "DevopsOptions", "S3Options", "AuthenticationOptions",
    "LdapOptions", "OpenPitrixOptions", "NetworkOptions", "MultiClusterOptions",
    "ServiceMeshOptions", "GatewayOptions">>

GroupFieldSet == {GroupFields[i] : i \in DOMAIN GroupFields}

\* The values a sub-option group can hold (see the header).
GroupValues == 0..MaxErrs

\* ------------------------------------------------- sub-option contracts
\* X.Validate() of a sub-option group: the group's own error list.
SubValidate(g, v) == [i \in 1..v |-> [src |-> g, idx |-> i]]

\* ------------------------------------------------------- labels.Parse
\* Lexer and parser of k8s.io/apimachinery/pkg/labels (an external library,
\* called at options.go:146), restricted to the
\* tokens the alphabet can spell (identifier, "=", "==", "!", "!=", ",").
IsSpecialSymbol(ch) == ch \in {"=", "!", "(", ")", ",", ">", "<"}

String2Token(buf) ==
  CASE buf = <<")">> -> "ClosedPar"
    [] buf = <<",">> -> "Comma"
    [] buf = <<"!">> -> "DoesNotExist"
    [] buf = <<"=", "=">> -> "DoubleEquals"
    [] buf = <<"=">> -> "Equals"
    [] buf = <<">">> -> "GreaterThan"
    [] buf = <<"<">> -> "LessThan"
    [] buf = <<"!", "=">> -> "NotEquals"
    [] buf = <<"(">> -> "OpenPar"
    [] OTHER -> "none"

\* scanSpecialSymbol: the longest run of special symbols from position i that
\* spells a token; stops at the first extension that is no token once one was
\* found.  Returns the token and the position after it.
RECURSIVE ScanSpecialSymbol(_, _, _, _)
ScanSpecialSymbol(str, i, buf, last) ==
  IF i > Len(str) \/ ~IsSpecialSymbol(str[i])
  THEN [tok |-> IF last.tok = "none" THEN "Error" ELSE last.tok, next |-> last.next]
  ELSE LET b == Append(buf, str[i])
           t == String2Token(b)
       IN IF t # "none"
          THEN ScanSpecialSymbol(str, i + 1, b, [tok |-> t, next |-> i + 1])
          ELSE IF last.tok # "none"
               THEN [tok |-> last.tok, next |-> last.next]
               ELSE ScanSpecialSymbol(str, i + 1, b, last)

\* scanIDOrKeyword: reads up to the next special symbol or the end.
RECURSIVE ScanIDOrKeyword(_, _)
ScanIDOrKeyword(str, i) ==
  IF i > Len(str) \/ IsSpecialSymbol(str[i])
  THEN [tok |-> "Identifier", next |-> i]
  ELSE ScanIDOrKeyword(str, i + 1)

\* Lexer.Lex at position i.
Lex(str, i) ==
  IF i > Len(str) THEN [tok |-> "EndOfString", next |-> i]
  ELSE IF IsSpecialSymbol(str[i])
       THEN ScanSpecialSymbol(str, i, <<>>, [tok |-> "none", next |-> i + 1])
       ELSE ScanIDOrKeyword(str, i)

\* Parser.scan: all tokens up to and including EndOfString.
RECURSIVE Scan(_, _)
Scan(str, i) ==
  LET t == Lex(str, i)
  IN IF t.tok = "EndOfString" THEN <<"EndOfString">>
     ELSE <<t.tok>> \o Scan(str, t.next)

\* Parser.parseKeyAndInferOperator at token position p.
ParseKeyAndInferOperator(toks, p) ==
  LET neg == toks[p] = "DoesNotExist"
      q == IF neg THEN p + 1 ELSE p
  IN IF toks[q] # "Identifier" THEN [ok |-> FALSE, operator |-> "", pos |-> q + 1]
     ELSE [ok |-> TRUE,
           operator |-> IF neg THEN "DoesNotExist"
                        ELSE IF toks[q + 1] \in {"EndOfString", "Comma"}
                             THEN "Exists" ELSE "",
           pos |-> q + 1]

\* Parser.parseOperator.
ParseOperator(toks, p) ==
  [ok |-> toks[p] \in {"Equals", "DoubleEquals", "GreaterThan", "LessThan", "NotEquals"},
   pos |-> p + 1]

\* Parser.parseExactValue: an empty value before "," or the end, else an identifier.
ParseExactValue(toks, p) ==
  IF toks[p] \in {"EndOfString", "Comma"} THEN [ok |-> TRUE, pos |-> p]
  ELSE [ok |-> toks[p] = "Identifier", pos |-> p + 1]

\* Parser.parseRequirement.
ParseRequirement(toks, p) ==
  LET k == ParseKeyAndInferOperator(toks, p)
  IN IF ~k.ok THEN [ok |-> FALSE, pos |-> k.pos]
     ELSE IF k.operator \in {"Exists", "DoesNotExist"} THEN [ok |-> TRUE, pos |-> k.pos]
     ELSE LET o == ParseOperator(toks, k.pos)
          IN IF ~o.ok THEN [ok |-> FALSE, pos |-> o.pos]
             ELSE ParseExactValue(toks, o.pos)

\* Parser.parse: the requirement loop; TRUE iff the token list is a selector.
RECURSIVE ParseLoop(_, _)
ParseLoop(toks, p) ==
  IF toks[p] \in {"Identifier", "DoesNotExist"}
  THEN LET r == ParseRequirement(toks, p)
       IN IF ~r.ok THEN FALSE
          ELSE IF toks[r.pos] = "EndOfString" THEN TRUE
          ELSE IF toks[r.pos] = "Comma"
               THEN IF toks[r.pos + 1] \in {"Identifier", "DoesNotExist"}
                    THEN ParseLoop(toks, r.pos + 1)
                    ELSE FALSE
               ELSE FALSE
  ELSE toks[p] = "EndOfString"

\* labels.Parse(selector): TRUE iff err == nil.
Parse(str) == ParseLoop(Scan(str, 1), 1)

\* The error value labels.Parse returns for a string that is no selector.
SelectorError == [src |-> "labels.Parse", idx |-> 0]

\* ----------------------------------------------------------- constructor
NewOptionsSwappedDurations ==
  [KubernetesOptions |-> 0, DevopsOptions |-> 0, S3Options |-> 0,
   LdapOptions |-> 0, OpenPitrixOptions |-> 0, NetworkOptions |-> 0,
   MultiClusterOptions |-> 0, ServiceMeshOptions |-> 0,
   AuthenticationOptions |-> 0, GatewayOptions |-> 0,
   LeaderElection |-> [LeaseDuration |-> DefaultRenewDeadline,
                       RenewDeadline |-> DefaultLeaseDuration,
                       RetryPeriod |-> DefaultRetryPeriod],
   LeaderElect |-> FALSE, WebhookCertDir |-> "", ApplicationSelector |-> <<>>]

NewKubeSphereControllerManagerOptions ==
  [KubernetesOptions |-> 0, DevopsOptions |-> 0, S3Options |-> 0,
   LdapOptions |-> 0, OpenPitrixOptions |-> 0, NetworkOptions |-> 0,
   MultiClusterOptions |-> 0, ServiceMeshOptions |-> 0,
   AuthenticationOptions |-> 0, GatewayOptions |-> 0,
   LeaderElection |-> [LeaseDuration |-> DefaultLeaseDuration,
                       RenewDeadline |-> DefaultRenewDeadline,
                       RetryPeriod |-> DefaultRetryPeriod],
   LeaderElect |-> FALSE, WebhookCertDir |-> "", ApplicationSelector |-> <<>>]

\* ----------------------------------------------------------------- Flags
\* cliflag.NamedFlagSets.FlagSet(name): the set of that name, created (and its
\* name appended to the order) on first use.  A flag set is a function from
\* flag name to the default value recorded at registration.
FlagSet(sets, name, flags) ==
  IF \E i \in DOMAIN sets : sets[i].name = name
  THEN [i \in DOMAIN sets |->
          IF sets[i].name = name
          THEN [name |-> name, flags |-> flags @@ sets[i].flags]
          ELSE sets[i]]
  ELSE Append(sets, [name |-> name, flags |-> flags])

\* X.AddFlags(fs, X) of a sub-option group: the group's flags are declared
\* outside this file, so only the creation of the named set is modelled.
SubAddFlags == <<>>

\* bindLeaderElectionFlags: three duration flags, defaults read from l.
bindLeaderElectionFlags(l) ==
  ("leader-elect-lease-duration" :> l.LeaseDuration)
  @@ ("leader-elect-renew-deadline" :> l.RenewDeadline)
  @@ ("leader-elect-retry-period" :> l.RetryPeriod)

\* klog.InitFlags(local): some of the flag names klog declares.
KlogInitFlags ==
  { <<"log", "_", "dir">>, <<"logtostderr">>, <<"v">>,
    <<"skip", "_", "log", "_", "headers">> }

\* strings.Replace(fl.Name, "_", "-", -1)
ReplaceUnderscores(name) ==
  [i \in DOMAIN name |-> IF name[i] = "_" THEN "-" ELSE name[i]]

KlogFlagSet == [n \in {ReplaceUnderscores(f) : f \in KlogInitFlags} |-> "klog"]

FlagsHardcodedDefaults(s) ==
  LET le == bindLeaderElectionFlags(NewKubeSphereControllerManagerOptions.LeaderElection)
            @@ ("leader-elect" :> FALSE) @@ ("webhook-cert-dir" :> "")
      f1 == FlagSet(<<>>, "kubernetes", SubAddFlags)
      f2 == FlagSet(f1, "devops", SubAddFlags)
      f3 == FlagSet(f2, "s3", SubAddFlags)
      f4 == FlagSet(f3, "authentication", SubAddFlags)
      f5 == FlagSet(f4, "ldap", SubAddFlags)
      f6 == FlagSet(f5, "openpitrix", SubAddFlags)
      f7 == FlagSet(f6, "network", SubAddFlags)
      f8 == FlagSet(f7, "multicluster", SubAddFlags)
      f9 == FlagSet(f8, "servicemesh", SubAddFlags)
      f10 == FlagSet(f9, "gateway", SubAddFlags)
      f11 == FlagSet(f10, "leaderelection", le)
      f12 == FlagSet(f11, "generic", "application-selector" :> <<>>)
  IN [cfg |-> s, fss |-> FlagSet(f12, "klog", KlogFlagSet)]

FlagsWithoutGateway(s) ==
  LET le == bindLeaderElectionFlags(s.LeaderElection)
            @@ ("leader-elect" :> s.LeaderElect)
            @@ ("webhook-cert-dir" :> s.WebhookCertDir)
      f1 == FlagSet(<<>>, "kubernetes", SubAddFlags)
      f2 == FlagSet(f1, "devops", SubAddFlags)
      f3 == FlagSet(f2, "s3", SubAddFlags)
      f4 == FlagSet(f3, "authentication", SubAddFlags)
      f5 == FlagSet(f4, "ldap", SubAddFlags)
      f6 == FlagSet(f5, "openpitrix", SubAddFlags)
      f7 == FlagSet(f6, "network", SubAddFlags)
      f8 == FlagSet(f7, "multicluster", SubAddFlags)
      f9 == FlagSet(f8, "servicemesh", SubAddFlags)
      f11 == FlagSet(f9, "leaderelection", le)
      f12 == FlagSet(f11, "generic", "application-selector" :> s.ApplicationSelector)
  IN [cfg |-> s, fss |-> FlagSet(f12, "klog", KlogFlagSet)]

\* Flags(): the config after the call and the returned named flag sets.
Flags(s) ==
  LET le == bindLeaderElectionFlags(s.LeaderElection)
            @@ ("leader-elect" :> s.LeaderElect)
            @@ ("webhook-cert-dir" :> s.WebhookCertDir)
      f1 == FlagSet(<<>>, "kubernetes", SubAddFlags)
      f2 == FlagSet(f1, "devops", SubAddFlags)
      f3 == FlagSet(f2, "s3", SubAddFlags)
      f4 == FlagSet(f3, "authentication", SubAddFlags)
      f5 == FlagSet(f4, "ldap", SubAddFlags)
      f6 == FlagSet(f5, "openpitrix", SubAddFlags)
      f7 == FlagSet(f6, "network", SubAddFlags)
      f8 == FlagSet(f7, "multicluster", SubAddFlags)
      f9 == FlagSet(f8, "servicemesh", SubAddFlags)
      f10 == FlagSet(f9, "gateway", SubAddFlags)
      f11 == FlagSet(f10, "leaderelection", le)
      f12 == FlagSet(f11, "generic", "application-selector" :> s.ApplicationSelector)
  IN [cfg |-> s, fss |-> FlagSet(f12, "klog", KlogFlagSet)]

\* -------------------------------------------------------------- Validate
\* The sub-option errors Validate appends, in the order of its appends.
SubErrors(s) ==
  SubValidate("DevopsOptions", s.DevopsOptions)
  \o SubValidate("KubernetesOptions", s.KubernetesOptions)
  \o SubValidate("S3Options", s.S3Options)
  \o SubValidate("OpenPitrixOptions", s.OpenPitrixOptions)
  \o SubValidate("NetworkOptions", s.NetworkOptions)
  \o SubValidate("LdapOptions", s.LdapOptions)
  \o SubValidate("MultiClusterOptions", s.MultiClusterOptions)

\* The selector check: the errors it appends and the number of parser calls.
SelectorCheck(s) ==
  IF Len(s.ApplicationSelector) # 0
  THEN [errs |-> IF Parse(s.ApplicationSelector) THEN <<>> ELSE <<SelectorError>>,
        parseCalls |-> 1]
  ELSE [errs |-> <<>>, parseCalls |-> 0]

\* Faulty variants of Validate (fail-fast, selector ignored, parser always
\* called, receiver written, selector required, durations cross-checked).
ValidateFailFast(s) ==
  LET sub == SubErrors(s)
      sel == SelectorCheck(s)
  IN [cfg |-> s,
      errs |-> IF sub # <<>> THEN <<sub[1]>> ELSE sel.errs,
      parseCalls |-> IF sub # <<>> THEN 0 ELSE sel.parseCalls]

ValidateNoSelectorError(s) ==
  [cfg |-> s, errs |-> SubErrors(s), parseCalls |-> SelectorCheck(s).parseCalls]

ValidateAlwaysParses(s) ==
  [cfg |-> s,
   errs |-> SubErrors(s) \o (IF Parse(s.ApplicationSelector) THEN <<>> ELSE <<SelectorError>>),
   parseCalls |-> 1]

ValidateResetsSelector(s) ==
  [cfg |-> [s EXCEPT !.ApplicationSelector = <<>>],
   errs |-> SubErrors(s) \o SelectorCheck(s).errs,
   parseCalls |-> SelectorCheck(s).parseCalls]

ValidateRequiresSelector(s) ==
  [cfg |-> s,
   errs |-> SubErrors(s)
            \o (IF Len(s.ApplicationSelector) = 0 THEN <<SelectorError>>
                ELSE SelectorCheck(s).errs),
   parseCalls |-> SelectorCheck(s).parseCalls]

ValidateChecksDurations(s) ==
  [cfg |-> s,
   errs |-> SubErrors(s) \o SelectorCheck(s).errs
            \o (IF s.LeaderElection.RenewDeadline > s.LeaderElection.LeaseDuration
                THEN <<[src |-> "LeaderElection", idx |-> 0]>> ELSE <<>>),
   parseCalls |-> SelectorCheck(s).parseCalls]

\* Validate(): the config after the call, the returned error list and the
\* number of labels.Parse calls made.
Validate(s) ==
  [cfg |-> s,
   errs |-> SubErrors(s) \o SelectorCheck(s).errs,
   parseCalls |-> SelectorCheck(s).parseCalls]

\* ------------------------------------------------------------- the steps
NoFlagSets == <<>>

Init ==
  /\ cfg = NewKubeSphereControllerManagerOptions
  /\ op = "New"
  /\ errs = <<>>
  /\ parseCalls = 0
  /\ fss = NoFlagSets
  /\ flagsRegistered = FALSE
  /\ nSet = 0

\* The rest of a write to one field: the flag parser storing a command-line
\* value through the pointer a flag was bound to, or the caller assigning it.
Stored ==
  /\ nSet' = nSet + 1
  /\ op' = "Set"
  /\ errs' = <<>>
  /\ parseCalls' = 0
  /\ fss' = NoFlagSets
  /\ UNCHANGED flagsRegistered

SetGroup ==
  \E g \in GroupFieldSet, v \in GroupValues :
    /\ nSet < MaxOverrides
    /\ cfg' = [cfg EXCEPT ![g] = v]
    /\ Stored

SetLeaderElect ==
  \E b \in BOOLEAN :
    /\ nSet < MaxOverrides
    /\ cfg' = [cfg EXCEPT !.LeaderElect = b]
    /\ Stored

SetLeaseDuration ==
  \E d \in DurationValues :
    /\ nSet < MaxOverrides
    /\ cfg' = [cfg EXCEPT !.LeaderElection.LeaseDuration = d]
    /\ Stored

SetRenewDeadline ==
  \E d \in DurationValues :
    /\ nSet < MaxOverrides
    /\ cfg' = [cfg EXCEPT !.LeaderElection.RenewDeadline = d]
    /\ Stored

SetRetryPeriod ==
  \E d \in DurationValues :
    /\ nSet < MaxOverrides
    /\ cfg' = [cfg EXCEPT !.LeaderElection.RetryPeriod = d]
    /\ Stored

SetWebhookCertDir ==
  \E d \in CertDirs :
    /\ nSet < MaxOverrides
    /\ cfg' = [cfg EXCEPT !.WebhookCertDir = d]
    /\ Stored

SetApplicationSelector ==
  \E str \in Selectors :
    /\ nSet < MaxOverrides
    /\ cfg' = [cfg EXCEPT !.ApplicationSelector = str]
    /\ Stored

CallFlags ==
  /\ cfg' = Flags(cfg).cfg
  /\ fss' = Flags(cfg).fss
  /\ flagsRegistered' = TRUE
  /\ op' = "Flags"
  /\ errs' = <<>>
  /\ parseCalls' = 0
  /\ UNCHANGED nSet

CallValidate ==
  /\ cfg' = Validate(cfg).cfg
  /\ errs' = Validate(cfg).errs
  /\ parseCalls' = Validate(cfg).parseCalls
  /\ op' = "Validate"
  /\ fss' = NoFlagSets
  /\ UNCHANGED <<flagsRegistered, nSet>>

Next ==
  \/ SetGroup
  \/ SetLeaderElect
  \/ SetLeaseDuration
  \/ SetRenewDeadline
  \/ SetRetryPeriod
  \/ SetWebhookCertDir
  \/ SetApplicationSelector
  \/ CallFlags
  \/ CallValidate

Spec == Init /\ [][Next]_vars

\* =================================================================
\* Properties
\* =================================================================
\* The groups Validate consults, in the order of its appends.
Consulted ==
  <<"DevopsOptions", "KubernetesOptions", "S3Options", "OpenPitrixOptions",
    "NetworkOptions", "LdapOptions", "MultiClusterOptions">>

RECURSIVE ConcatErrors(_, _)
ConcatErrors(s, order) ==
  IF order = <<>> THEN <<>>
  ELSE SubValidate(Head(order), s[Head(order)]) \o ConcatErrors(s, Tail(order))

RECURSIVE SumCounts(_, _)
SumCounts(s, order) ==
  IF order = <<>> THEN 0 ELSE s[Head(order)] + SumCounts(s, Tail(order))

Occurs(e, list) == \E i \in DOMAIN list : list[i] = e

SelectorErrorCount(list) ==
  Cardinality({i \in DOMAIN list : list[i].src = "labels.Parse"})

\* The flags recorded in the flag set of the given name (empty if absent).
FlagsOf(sets, name) ==
  IF \E i \in DOMAIN sets : sets[i].name = name
  THEN (CHOOSE e \in {sets[i] : i \in DOMAIN sets} : e.name = name).flags
  ELSE <<>>

FlagSetNames(sets) == {sets[i].name : i \in DOMAIN sets}

\* C1: after Validate, every error that any of the ten sub-option groups
\* reports is in the returned list (no group's error is dropped).
C1_EveryGroupErrorReturned ==
  op = "Validate" =>
    \A g \in GroupFieldSet :
      \A i \in DOMAIN SubValidate(g, cfg[g]) : Occurs(SubValidate(g, cfg[g])[i], errs)

\* C2: Validate never exits early: the returned list is the concatenation, in
\* the order the groups are consulted, of each consulted group's full error
\* list, followed by at most one selector parse error; its length is the sum
\* of the groups' error counts plus 0 or 1.
C2_NoEarlyExit ==
  op = "Validate" =>
    LET groupErrs == ConcatErrors(cfg, Consulted)
    IN /\ errs \in {groupErrs, Append(groupErrs, SelectorError)}
       /\ Len(errs) - SumCounts(cfg, Consulted) \in {0, 1}

C2_Witness ==
  /\ op = "Validate"
  /\ cfg.DevopsOptions > 0
  /\ cfg.MultiClusterOptions > 0
  /\ Len(errs) = cfg.DevopsOptions + cfg.MultiClusterOptions
  /\ errs[Len(errs)].src = "MultiClusterOptions"

\* C3: for a non-empty selector, Validate returns exactly one selector error
\* when the string does not parse and none when it parses ("k=" and "!k"
\* give none, "==" gives one), whatever the groups report.
C3_SelectorErrorIffUnparsable ==
  (op = "Validate" /\ cfg.ApplicationSelector # <<>>) =>
    LET sel == cfg.ApplicationSelector
        n == SelectorErrorCount(errs)
    IN /\ n = IF Parse(sel) THEN 0 ELSE 1
       /\ sel = <<"k", "=">> => n = 0
       /\ sel = <<"!", "k">> => n = 0
       /\ sel = <<"=", "=">> => n = 1

C3_Witness ==
  /\ op = "Validate"
  /\ cfg.ApplicationSelector = <<"=", "=">>
  /\ SelectorErrorCount(errs) = 1
  /\ Len(errs) > 1

\* C4: with an empty selector Validate does not call the selector parser and
\* returns only sub-option group errors.
C4_EmptySelectorNotParsed ==
  (op = "Validate" /\ cfg.ApplicationSelector = <<>>) =>
    /\ parseCalls = 0
    /\ SelectorErrorCount(errs) = 0
    /\ \A i \in DOMAIN errs : errs[i].src \in GroupFieldSet

C4_Witness ==
  /\ op = "Validate"
  /\ cfg.ApplicationSelector = <<>>
  /\ errs # <<>>
  /\ parseCalls = 0

\* C5: a Validate call leaves every field of the config unchanged, and a
\* Validate call that follows a Validate call returns the same error list.
C5_ValidateHasNoSideEffect ==
  [][op' = "Validate" => (cfg' = cfg /\ (op = "Validate" => errs' = errs))]_vars

C5_Witness ==
  /\ op = "Validate"
  /\ cfg.ApplicationSelector # <<>>
  /\ errs # <<>>
  /\ cfg # NewKubeSphereControllerManagerOptions

\* C6: the constructed config has all ten groups set, leader election off,
\* empty cert directory and selector, and durations 30s/15s/5s, so that
\* retryPeriod < renewDeadline < leaseDuration.
C6_ConstructedDefaults ==
  op = "New" =>
    /\ \A g \in GroupFieldSet : g \in DOMAIN cfg /\ cfg[g] \in GroupValues
    /\ cfg.LeaderElect = FALSE
    /\ cfg.WebhookCertDir = ""
    /\ cfg.ApplicationSelector = <<>>
    /\ cfg.LeaderElection = [LeaseDuration |-> 30, RenewDeadline |-> 15, RetryPeriod |-> 5]
    /\ cfg.LeaderElection.RetryPeriod < cfg.LeaderElection.RenewDeadline
    /\ cfg.LeaderElection.RenewDeadline < cfg.LeaderElection.LeaseDuration

C6_Witness ==
  /\ op = "New"
  /\ nSet = 0
  /\ ~flagsRegistered
  /\ DOMAIN cfg = GroupFieldSet \cup {"LeaderElect", "LeaderElection", "WebhookCertDir",
                                      "ApplicationSelector"}

\* C7: Validate on a config no field of which was written since construction
\* returns the empty list, whether or not Flags was called before.
C7_DefaultsValidate ==
  (op = "Validate" /\ nSet = 0) => errs = <<>>

C7_Witness ==
  /\ op = "Validate"
  /\ nSet = 0
  /\ flagsRegistered
  /\ errs = <<>>

\* C8: a Flags call leaves the config unchanged, and the default recorded for
\* each of the six aggregator flags is the value of its field at the call;
\* on a freshly constructed config these are false, 30, 15, 5, "" and "".
C8_FlagsKeepsConfig ==
  [][op' = "Flags" =>
       LET le == FlagsOf(fss', "leaderelection")
           ge == FlagsOf(fss', "generic")
       IN /\ cfg' = cfg
          /\ le["leader-elect"] = cfg.LeaderElect
          /\ le["leader-elect-lease-duration"] = cfg.LeaderElection.LeaseDuration
          /\ le["leader-elect-renew-deadline"] = cfg.LeaderElection.RenewDeadline
          /\ le["leader-elect-retry-period"] = cfg.LeaderElection.RetryPeriod
          /\ le["webhook-cert-dir"] = cfg.WebhookCertDir
          /\ ge["application-selector"] = cfg.ApplicationSelector
          /\ nSet = 0 =>
               /\ le["leader-elect"] = FALSE
               /\ le["leader-elect-lease-duration"] = 30
               /\ le["leader-elect-renew-deadline"] = 15
               /\ le["leader-elect-retry-period"] = 5
               /\ le["webhook-cert-dir"] = ""
               /\ ge["application-selector"] = <<>>]_vars

C8_Witness ==
  /\ op = "Flags"
  /\ nSet > 0
  /\ FlagsOf(fss, "leaderelection")["leader-elect-lease-duration"] # 30
  /\ FlagsOf(fss, "generic")["application-selector"] # <<>>

\* C9: Flags returns one flag set per sub-option group under the names
\* kubernetes .. gateway, a leaderelection set holding exactly the three
\* duration flags, leader-elect and webhook-cert-dir, a generic set holding
\* application-selector, and a logging set; so every group and every field
\* Validate reads has a flag or a flag set.
GroupFlagSetName ==
  [KubernetesOptions |-> "kubernetes", DevopsOptions |-> "devops", S3Options |-> "s3",
   AuthenticationOptions |-> "authentication", LdapOptions |-> "ldap",
   OpenPitrixOptions |-> "openpitrix", NetworkOptions |-> "network",
   MultiClusterOptions |-> "multicluster", ServiceMeshOptions |-> "servicemesh",
   GatewayOptions |-> "gateway"]

C9_FlagRegistrationComplete ==
  op = "Flags" =>
    /\ FlagSetNames(fss) =
         {"kubernetes", "devops", "s3", "authentication", "ldap", "openpitrix",
          "network", "multicluster", "servicemesh", "gateway",
          "leaderelection", "generic", "klog"}
    /\ Len(fss) = 13
    /\ DOMAIN FlagsOf(fss, "leaderelection") =
         {"leader-elect-lease-duration", "leader-elect-renew-deadline",
          "leader-elect-retry-period", "leader-elect", "webhook-cert-dir"}
    /\ DOMAIN FlagsOf(fss, "generic") = {"application-selector"}
    /\ DOMAIN FlagsOf(fss, "klog") # {}
    /\ \A g \in GroupFieldSet : GroupFlagSetName[g] \in FlagSetNames(fss)
    /\ \A i \in DOMAIN Consulted : GroupFlagSetName[Consulted[i]] \in FlagSetNames(fss)

C9_Witness ==
  /\ op = "Flags"
  /\ Len(fss) = 13
  /\ fss[Len(fss)].name = "klog"
  /\ <<"log", "-", "dir">> \in DOMAIN FlagsOf(fss, "klog")

\* C10: the list Validate returns does not depend on the leader-election
\* durations or on the leader-election flag: it is the list returned for the
\* same config with the default durations and either value of the flag.
C10_DurationsNotChecked ==
  op = "Validate" =>
    \A b \in BOOLEAN :
      errs = Validate([cfg EXCEPT
                         !.LeaderElect = b,
                         !.LeaderElection = [LeaseDuration |-> 30, RenewDeadline |-> 15,
                                             RetryPeriod |-> 5]]).errs

\* A config that passes Validate with the ordering retry < renew <= lease broken.
C10_Witness ==
  /\ op = "Validate"
  /\ errs = <<>>
  /\ cfg.LeaderElect
  /\ cfg.LeaderElection.RenewDeadline > cfg.LeaderElection.LeaseDuration

====
